---- MODULE Spec2Model ----
(***************************************************************************)
(* GitInsights front end: the user-data orchestrator (UserProvider in      *)
(* context/UserContext.jsx), the API client (api/githubInsightsApi.js)     *)
(* and the mount effects of the pages that drive them.                     *)
(*                                                                         *)
(* One action is one JavaScript task: the synchronous part of a handler    *)
(* together with the chain of promise continuations it wakes up.  State    *)
(* setters take effect in the order in which the code calls them.          *)
(***************************************************************************)
EXTENDS Integers, Sequences, FiniteSets, TLC

\* ------------------------------------------------------------------ bounds
\* standalone single-resource fetches that may be in flight together
MaxStandalone == 2

\* composite loads run to completion in one session
MaxLoads == 1

\* standalone single-resource fetch calls made in one session
MaxFetches == 1

\* composite loads a mounted page may run to completion
MaxPageLoads == 2

\* composite loads run one after the other in a session of searches
MaxReloads == 2

\* tokens of the texts found in durable storage at startup
MaxStoredTokens == 5

\* days of a date range handed to getDateRange
MaxDaysAgo == 2

\* the largest contribution count of one day
MaxCount == 2

\* ------------------------------------------------------- program constants
\* [newUsername, ...filtered].slice(0, 5)
MAX_RECENT == 5

\* ------------------------------------------------------------- input sets
\* usernames handed to the orchestrator: empty, whitespace-only, two logins
Usernames == {"", " ", "a", "c"}

\* what JSON.parse(localStorage.getItem('recentSearches')) yields at startup:
\* lists written by earlier sessions
StoredHistories == {<<>>, <<"b", "a">>, <<"e", "d", "c2", "b", "a">>}

\* keys of loadingStates; each key also names the entity slot it guards
\* (profile: userData, repositories: repositories, languages: languages,
\*  activity: activityData, insights: repoInsights, trends: languageTrends,
\*  contributions: contributionData)
Keys == {"profile", "repositories", "languages", "activity", "insights",
         "trends", "contributions"}

\* the order of the array handed to Promise.allSettled
SecondaryOrder == <<"repositories", "languages", "activity", "insights",
                    "trends", "contributions">>

Secondary == {SecondaryOrder[i] : i \in 1..Len(SecondaryOrder)}

\* ------------------------------------------------------------ JS values
Val(t, u, r) == [tag |-> t, user |-> u, res |-> r]

NullValue == Val("null", "", "")
FalseValue == Val("false", "", "")
EmptyList == Val("list", "", "")
EmptyObject == Val("object", "", "")
DetailObject == Val("detail", "", "")

\* the JSON document the backend serves for resource r of user u
Payload(u, r) == Val("data", u, r)

\* JavaScript truthiness: null and false are falsy, [] and {} are truthy
Truthy(v) == v.tag \notin {"null", "false"}

\* !newUsername
Falsy(s) == s = ""

\* useState initial values of the entity slots
EmptyOf(key) == IF key = "repositories" THEN EmptyList ELSE NullValue

\* ---------------------------------------------------------- error messages
NoError == <<>>
UsernameRequired == <<"Username is required">>
UserNotFound(u) == <<"User ", u, " not found">>
NotFoundOrApiError(u) == <<"User ", u, " not found or API error occurred">>
FailedToLoadProfile(m) == <<"Failed to load user profile: ", m>>
UnexpectedError == <<"An unexpected error occurred">>
ErrorMessage(m) == <<m>>

\* what the try block of loadUserData may throw: nothing, an Error with a
\* message, an Error without one
Exception(m) == [thrown |-> TRUE, message |-> m]
NoException == [thrown |-> FALSE, message |-> ""]
Exceptions == {Exception("Network down"), Exception("")}

\* ------------------------------------------------------- durable storage
\* JavaScript values that JSON text can denote
Js(tag, items, text) == [tag |-> tag, items |-> items, text |-> text]

JsNull == Js("null", <<>>, "")
JsObject == Js("object", <<>>, "")
JsString(str) == Js("string", <<>>, str)
JsList(items) == Js("list", items, "")

\* JSON text as the sequence of its lexical tokens
Tok(kind, text) == [kind |-> kind, text |-> text]

LBracket == Tok("punct", "[")
RBracket == Tok("punct", "]")
Comma == Tok("punct", ",")
NullTok == Tok("literal", "null")
ObjectTok == Tok("literal", "{}")
StrTok(str) == Tok("string", str)

\* what localStorage.getItem returns: null, or the text stored under the key
NoItem == [present |-> FALSE, text |-> <<>>]
Item(text) == [present |-> TRUE, text |-> text]

\* JSON.stringify
RECURSIVE JSONstringify(_)
RECURSIVE stringifyItems(_, _)
stringifyItems(items, i) ==
    IF i > Len(items) THEN <<>>
    ELSE (IF i > 1 THEN <<Comma>> ELSE <<>>)
            \o JSONstringify(items[i]) \o stringifyItems(items, i + 1)

JSONstringify(v) ==
    CASE v.tag = "null" -> <<NullTok>>
      [] v.tag = "object" -> <<ObjectTok>>
      [] v.tag = "string" -> <<StrTok(v.text)>>
      [] v.tag = "list" ->
            <<LBracket>> \o stringifyItems(v.items, 1) \o <<RBracket>>

\* JSON.parse: a parse ends with a value and the index after it, or with a
\* SyntaxError
SyntaxError == [ok |-> FALSE, value |-> JsNull, next |-> 0]
Parsed(v, next) == [ok |-> TRUE, value |-> v, next |-> next]

RECURSIVE parseValue(_, _)
RECURSIVE parseElements(_, _, _)
\* the elements of an array from index i on, after "[" or ","
parseElements(text, i, acc) ==
    LET e == parseValue(text, i)
    IN  IF ~e.ok \/ e.next > Len(text) THEN SyntaxError
        ELSE IF text[e.next] = RBracket
             THEN Parsed(JsList(Append(acc, e.value)), e.next + 1)
             ELSE IF text[e.next] = Comma
                  THEN parseElements(text, e.next + 1, Append(acc, e.value))
                  ELSE SyntaxError

parseValue(text, i) ==
    IF i > Len(text) THEN SyntaxError
    ELSE CASE text[i] = NullTok -> Parsed(JsNull, i + 1)
           [] text[i] = ObjectTok -> Parsed(JsObject, i + 1)
           [] text[i].kind = "string" -> Parsed(JsString(text[i].text), i + 1)
           [] text[i] = LBracket ->
                 IF i < Len(text) /\ text[i + 1] = RBracket
                 THEN Parsed(JsList(<<>>), i + 2)
                 ELSE parseElements(text, i + 1, <<>>)
           [] OTHER -> SyntaxError

JSONparse(text) ==
    LET p == parseValue(text, 1)
    IN  IF p.ok /\ p.next = Len(text) + 1 THEN p ELSE SyntaxError

\* the initialiser of the recentSearches state:
\* try { saved = getItem(...); return saved ? JSON.parse(saved) : [] }
\* catch (e) { return [] }
initialRecentSearches(saved) ==
    IF saved.present /\ saved.text # <<>>
    THEN LET p == JSONparse(saved.text)
         IN  IF p.ok THEN p.value ELSE JsList(<<>>)
    ELSE JsList(<<>>)

\* recentSearches.length > 0; reading .length of null throws a TypeError,
\* an object has no length and undefined > 0 is false
LengthThrows(v) == v.tag = "null"

LengthPositive(v) ==
    CASE v.tag = "list" -> Len(v.items) > 0
      [] v.tag = "string" -> v.text # ""
      [] OTHER -> FALSE

persistRecentSearches_Unconditional(saved, v) == Item(JSONstringify(v))

\* the persistence effect: what is under the key after it has run
persistRecentSearches(saved, v) ==
    IF LengthPositive(v) THEN Item(JSONstringify(v)) ELSE saved

\* a list of usernames as a JavaScript array of strings, and back
NamesToJs(list) == JsList([i \in 1..Len(list) |-> JsString(list[i])])
JsToNames(v) == [i \in 1..Len(v.items) |-> v.items[i].text]

VARIABLES
    username,        \* useState('')
    entities,        \* userData, repositories, languages, ... by key
    isLoading,       \* useState(false)
    loadingStates,   \* useState({profile: false, ...})
    error,           \* useState(null)
    isLoadingRef,    \* useRef(false)
    recentSearches,  \* useState(() => stored list)
    pending,         \* requests handed to the API client and not settled
    loads,           \* loadUserData invocations past the guard, not finished
    loadGot,         \* what the fetches of the latest accepted load returned
    finished,        \* composite loads that ran to their finally block
    fetched,         \* standalone fetch calls made
    loadSettled,     \* how the promise of the latest loadUserData invocation
                     \* that went through its catch block settled
    apiCall,         \* the API client call under observation
    stored,          \* what localStorage holds under 'recentSearches'
    startup,         \* the construction of the provider under observation
    page,            \* the mounted page and its route username
    effectDue,       \* the provider re-rendered since the page's effect ran
    absentSeen,      \* <<user, resource>> answered absent since the last
                     \* user action
    retried,         \* those of absentSeen an effect requested again
    hasAttemptedLoad,  \* useState(false) of the mounted UserPage
    navigateAfter,   \* the username a search form will navigate to once
                     \* the loadUserData call it awaits has settled
    effectCalls,     \* loadUserData calls the effect of the mounted UserPage
                     \* made for its route username
    started,         \* composite loads accepted since the user's last action
    contributions,   \* the contributions object handed to the streak
                     \* functions of utils/dateUtils.js
    returned         \* the calls of the streak functions that returned

vars == <<username, entities, isLoading, loadingStates, error, isLoadingRef,
          recentSearches, pending, loads, loadGot, finished, fetched,
          loadSettled,
          apiCall, stored, startup, page, effectDue, absentSeen, retried,
          hasAttemptedLoad, navigateAfter, effectCalls, started,
          contributions, returned>>

\* everything the provider, the API client and the pages hold
appVars == <<username, entities, isLoading, loadingStates, error,
             isLoadingRef, recentSearches, pending, loads, loadGot, finished,
             fetched, loadSettled, apiCall, stored, startup, page, effectDue,
             absentSeen, retried, hasAttemptedLoad, navigateAfter,
             effectCalls, started>>

streakVars == <<contributions, returned>>

userPageVars == <<hasAttemptedLoad, navigateAfter, effectCalls, started>>

pageVars == <<page, effectDue, absentSeen, retried, hasAttemptedLoad,
              navigateAfter, effectCalls, started>>

\* the provider's state as one value, threaded through a handler's statements
St == [username |-> username, entities |-> entities, isLoading |-> isLoading,
       loadingStates |-> loadingStates, error |-> error,
       isLoadingRef |-> isLoadingRef, recentSearches |-> recentSearches,
       pending |-> pending, loads |-> loads, loadGot |-> loadGot,
       finished |-> finished, fetched |-> fetched,
       loadSettled |-> loadSettled]

Commit(s) ==
    /\ username' = s.username
    /\ entities' = s.entities
    /\ isLoading' = s.isLoading
    /\ loadingStates' = s.loadingStates
    /\ error' = s.error
    /\ isLoadingRef' = s.isLoadingRef
    /\ recentSearches' = s.recentSearches
    /\ pending' = s.pending
    /\ loads' = s.loads
    /\ loadGot' = s.loadGot
    /\ finished' = s.finished
    /\ fetched' = s.fetched
    /\ loadSettled' = s.loadSettled
    \* useEffect(() => {...}, [recentSearches]) runs when the list changed
    /\ stored' = IF s.recentSearches # recentSearches
                 THEN persistRecentSearches(stored,
                                            NamesToJs(s.recentSearches))
                 ELSE stored
    /\ UNCHANGED <<apiCall, startup>>
    /\ UNCHANGED streakVars

\* ------------------------------------------------------------- API client
\* what the network can do with one request: status 0 stands for a
\* network-level failure (fetch rejects), otherwise an HTTP status and a body
Statuses == {200, 201, 404, 500}
Bodies == {"unparseable", "null", "false", "object", "detail", "data"}

HttpOutcomes ==
    {[status |-> 0, body |-> "none"]}
        \cup [status : Statuses, body : Bodies]

\* the outcomes the backend produces in the orchestrator specifications
ServerOutcomes ==
    {[status |-> 200, body |-> "data"],
     [status |-> 404, body |-> "detail"]}

\* the same, with the backend unreachable as well
LoadOutcomes == ServerOutcomes \cup {[status |-> 0, body |-> "none"]}

Endpoints == [user : Usernames \ {""}, res : Keys]

\* response.ok
ResponseOk(status) == status >= 200 /\ status <= 299

Resolve(v) == [kind |-> "resolve", value |-> v]
Reject(v) == [kind |-> "reject", value |-> v]

\* response.json(): the parsed body, or a rejection on malformed JSON
ResponseJson(endpoint, body) ==
    CASE body = "unparseable" -> Reject(Val("SyntaxError", "", ""))
      [] body = "null" -> Resolve(NullValue)
      [] body = "false" -> Resolve(FalseValue)
      [] body = "object" -> Resolve(EmptyObject)
      [] body = "detail" -> Resolve(DetailObject)
      [] OTHER -> Resolve(Payload(endpoint.user, endpoint.res))

\* the try block of fetchApi: what it returns, or what it throws
fetchApiTry(endpoint, o) ==
    IF o.status = 0
    THEN Reject(Val("TypeError", "", ""))            \* await fetch(url) rejects
    ELSE IF ~ResponseOk(o.status)
         THEN LET json == ResponseJson(endpoint, o.body)
                  \* response.json().catch(() => ({}))
                  errorData == IF json.kind = "reject" THEN EmptyObject
                               ELSE json.value
              IN  IF errorData.tag = "null"
                  THEN Reject(Val("TypeError", "", ""))   \* null.detail
                  ELSE Resolve(NullValue)                 \* return null
         ELSE ResponseJson(endpoint, o.body)         \* return await response.json()

fetchApi_Rethrow(endpoint, o) == fetchApiTry(endpoint, o)

\* fetchApi: the catch block turns every throw into null
fetchApi(endpoint, o) ==
    LET t == fetchApiTry(endpoint, o)
    IN  IF t.kind = "reject" THEN Resolve(NullValue) ELSE t

\* ------------------------------------------------------------ orchestrator
Request(key, u, by, seq) == [res |-> key, user |-> u, by |-> by, seq |-> seq]

EndpointOf(q) == [user |-> q.user, res |-> q.res]

AnyLoading(states) == \E k \in Keys : states[k]

\* updateLoadingState: set one flag, recompute the aggregate
updateLoadingState(s, key, value) ==
    LET updatedStates == [s.loadingStates EXCEPT ![key] = value]
    IN  [s EXCEPT !.loadingStates = updatedStates,
                  !.isLoading = AnyLoading(updatedStates)]

clearUserData_KeepError(s) ==
    [s EXCEPT !.entities = [k \in Keys |-> EmptyOf(k)]]

clearUserData(s) ==
    [s EXCEPT !.entities = [k \in Keys |-> EmptyOf(k)], !.error = NoError]

\* first statements of a fetch operation: raise the flag, call the client
fetchBegin(s, key, u, by, seq) ==
    LET s1 == updateLoadingState(s, key, TRUE)
    IN  [s1 EXCEPT !.pending = @ \cup {Request(key, u, by, seq)}]

fetchUserProfile_ClearsSlot(s, q, r) ==
    LET s1 == [s EXCEPT !.pending = @ \ {q}]
        s2 == IF r.kind = "reject"
              THEN [s1 EXCEPT !.error = FailedToLoadProfile("Unknown error")]
              ELSE IF Truthy(r.value)
                   THEN [s1 EXCEPT !.entities["profile"] = r.value]
                   ELSE [s1 EXCEPT !.error = UserNotFound(q.user),
                                   !.entities["profile"] = NullValue]
        ret == IF r.kind = "resolve" /\ Truthy(r.value) THEN r.value
               ELSE NullValue
    IN  [st |-> updateLoadingState(s2, "profile", FALSE), ret |-> ret]

\* fetchUserProfile after its await: r is what the client call settled to
fetchUserProfile(s, q, r) ==
    LET s1 == [s EXCEPT !.pending = @ \ {q}]
        s2 == IF r.kind = "reject"
              THEN [s1 EXCEPT !.error = FailedToLoadProfile("Unknown error")]
              ELSE IF Truthy(r.value)
                   THEN [s1 EXCEPT !.entities["profile"] = r.value]
                   ELSE [s1 EXCEPT !.error = UserNotFound(q.user)]
        ret == IF r.kind = "resolve" /\ Truthy(r.value) THEN r.value
               ELSE NullValue
    IN  [st |-> updateLoadingState(s2, "profile", FALSE), ret |-> ret]

fetchSecondary_SetsError(s, q, r) ==
    LET s1 == [s EXCEPT !.pending = @ \ {q}]
        ok == r.kind = "resolve" /\ Truthy(r.value)
        s2 == IF ok THEN [s1 EXCEPT !.entities[q.res] = r.value]
              ELSE [s1 EXCEPT !.entities[q.res] = EmptyOf(q.res),
                              !.error = UserNotFound(q.user)]
    IN  [st |-> updateLoadingState(s2, q.res, FALSE),
         ret |-> IF ok THEN r.value ELSE EmptyOf(q.res)]

fetchSecondary_ResetsAll(s, q, r) ==
    LET s1 == [s EXCEPT !.pending = @ \ {q}]
        ok == r.kind = "resolve" /\ Truthy(r.value)
        s2 == IF ok THEN [s1 EXCEPT !.entities[q.res] = r.value]
              ELSE clearUserData(s1)
    IN  [st |-> updateLoadingState(s2, q.res, FALSE),
         ret |-> IF ok THEN r.value ELSE EmptyOf(q.res)]

fetchSecondary_KeepStale(s, q, r) ==
    LET s1 == [s EXCEPT !.pending = @ \ {q}]
        ok == r.kind = "resolve" /\ Truthy(r.value)
        s2 == IF ok THEN [s1 EXCEPT !.entities[q.res] = r.value] ELSE s1
    IN  [st |-> updateLoadingState(s2, q.res, FALSE),
         ret |-> IF ok THEN r.value ELSE EmptyOf(q.res)]

fetchSecondary_NoFinally(s, q, r) ==
    LET s1 == [s EXCEPT !.pending = @ \ {q}]
        ok == r.kind = "resolve" /\ Truthy(r.value)
        s2 == [s1 EXCEPT !.entities[q.res] =
                            IF ok THEN r.value ELSE EmptyOf(q.res)]
    IN  [st |-> IF ok THEN updateLoadingState(s2, q.res, FALSE) ELSE s2,
         ret |-> IF ok THEN r.value ELSE EmptyOf(q.res)]

\* fetchRepositories, fetchLanguages, fetchActivityData, fetchRepoInsights,
\* fetchLanguageTrends, fetchContributionData after their await
fetchSecondary(s, q, r) ==
    LET s1 == [s EXCEPT !.pending = @ \ {q}]
        ok == r.kind = "resolve" /\ Truthy(r.value)
        s2 == [s1 EXCEPT !.entities[q.res] =
                            IF ok THEN r.value ELSE EmptyOf(q.res)]
    IN  [st |-> updateLoadingState(s2, q.res, FALSE),
         ret |-> IF ok THEN r.value ELSE EmptyOf(q.res)]

fetchSettled_GenerationCheck(s, q, r) ==
    IF q.user # s.username
    THEN [st |-> updateLoadingState([s EXCEPT !.pending = @ \ {q}],
                                    q.res, FALSE),
          ret |-> EmptyOf(q.res)]
    ELSE IF q.res = "profile" THEN fetchUserProfile(s, q, r)
         ELSE fetchSecondary(s, q, r)

\* the fetch operation that awaits request q resumes with result r
fetchSettled(s, q, r) ==
    IF q.res = "profile" THEN fetchUserProfile(s, q, r)
    ELSE fetchSecondary(s, q, r)

\* prev => [newUsername, ...prev.filter(name => name !== newUsername)].slice(0, 5)
Without(list, name) == SelectSeq(list, LAMBDA n : n # name)

Slice(list, n) == SubSeq(list, 1, IF Len(list) < n THEN Len(list) ELSE n)

addRecentSearch_NoFilter(prev, newUsername) ==
    Slice(<<newUsername>> \o prev, MAX_RECENT)

addRecentSearch(prev, newUsername) ==
    Slice(<<newUsername>> \o Without(prev, newUsername), MAX_RECENT)

\* ----------------------------------------------------------- loadUserData
NothingGot == [k \in Keys |-> "none"]

Load(u, stage) == [user |-> u, stage |-> stage]

loadCatch_Rethrow(s, exc) == [s EXCEPT !.loadSettled = "rejected"]

\* catch (error) { setError(error.message || 'An unexpected error occurred') }
loadCatch(s, exc) ==
    [s EXCEPT !.error = IF exc.message # "" THEN ErrorMessage(exc.message)
                        ELSE UnexpectedError,
              !.loadSettled = "fulfilled"]

loadFinally_KeepGuard(s, l) ==
    [s EXCEPT !.isLoading = FALSE, !.loads = @ \ {l}, !.finished = @ + 1]

\* finally { setIsLoading(false); isLoadingRef.current = false; }
loadFinally(s, l) ==
    [s EXCEPT !.isLoading = FALSE, !.isLoadingRef = FALSE, !.loads = @ \ {l},
              !.finished = @ + 1]

\* the calls inside Promise.allSettled([...]), in array order from index i
RECURSIVE fanOut(_, _, _)
fanOut(s, u, i) ==
    IF i > Len(SecondaryOrder) THEN s
    ELSE fanOut(fetchBegin(s, SecondaryOrder[i], u, "load", 0), u, i + 1)

loadUserData_NoGuard(s, newUsername) ==
    IF Falsy(newUsername)
    THEN [s EXCEPT !.error = UsernameRequired]
    ELSE LET s1 == [s EXCEPT !.isLoadingRef = TRUE]
             s2 == clearUserData(s1)
             s3 == [s2 EXCEPT !.username = newUsername,
                              !.recentSearches = addRecentSearch(@, newUsername)]
             s4 == [s3 EXCEPT !.isLoading = TRUE, !.error = NoError,
                              !.loads = @ \cup {Load(newUsername, "profile")},
                              !.loadGot = NothingGot]
         IN  fetchBegin(s4, "profile", newUsername, "load", 0)

loadUserData_Supersede(s, newUsername) ==
    IF Falsy(newUsername)
    THEN [s EXCEPT !.error = UsernameRequired]
    ELSE LET s1 == [s EXCEPT !.isLoadingRef = TRUE]
             s2 == clearUserData(s1)
             s3 == [s2 EXCEPT !.username = newUsername,
                              !.recentSearches = addRecentSearch(@, newUsername)]
             s4 == [s3 EXCEPT !.isLoading = TRUE, !.error = NoError,
                              !.loads = {Load(newUsername, "profile")},
                              !.pending = {},
                              !.loadGot = NothingGot]
         IN  fetchBegin(s4, "profile", newUsername, "load", 0)

loadUserData_NoRecord(s, newUsername) ==
    IF Falsy(newUsername)
    THEN [s EXCEPT !.error = UsernameRequired]
    ELSE IF s.isLoadingRef
         THEN s
         ELSE LET s1 == [s EXCEPT !.isLoadingRef = TRUE]
                  s2 == clearUserData(s1)
                  s3 == [s2 EXCEPT !.username = newUsername]
                  s4 == [s3 EXCEPT !.isLoading = TRUE, !.error = NoError,
                                   !.loads = @ \cup {Load(newUsername, "profile")},
                                   !.loadGot = NothingGot]
              IN  fetchBegin(s4, "profile", newUsername, "load", 0)

loadUserData_EmptyReleases(s, newUsername) ==
    IF Falsy(newUsername)
    THEN [s EXCEPT !.error = UsernameRequired, !.isLoadingRef = FALSE]
    ELSE IF s.isLoadingRef
         THEN s
         ELSE LET s1 == [s EXCEPT !.isLoadingRef = TRUE]
                  s2 == clearUserData(s1)
                  s3 == [s2 EXCEPT !.username = newUsername,
                                   !.recentSearches =
                                       addRecentSearch(@, newUsername)]
                  s4 == [s3 EXCEPT !.isLoading = TRUE, !.error = NoError,
                                   !.loads = @ \cup {Load(newUsername, "profile")},
                                   !.loadGot = NothingGot]
              IN  fetchBegin(s4, "profile", newUsername, "load", 0)

loadUserData_NoClear(s, newUsername) ==
    IF Falsy(newUsername)
    THEN [s EXCEPT !.error = UsernameRequired]
    ELSE IF s.isLoadingRef
         THEN s
         ELSE LET s1 == [s EXCEPT !.isLoadingRef = TRUE]
                  s3 == [s1 EXCEPT !.username = newUsername,
                                   !.recentSearches =
                                       addRecentSearch(@, newUsername)]
                  s4 == [s3 EXCEPT !.isLoading = TRUE, !.error = NoError,
                                   !.loads = @ \cup {Load(newUsername, "profile")},
                                   !.loadGot = NothingGot]
              IN  fetchBegin(s4, "profile", newUsername, "load", 0)

loadUserData_EagerFanOut(s, newUsername) ==
    IF Falsy(newUsername)
    THEN [s EXCEPT !.error = UsernameRequired]
    ELSE IF s.isLoadingRef
         THEN s
         ELSE LET s1 == [s EXCEPT !.isLoadingRef = TRUE]
                  s2 == clearUserData(s1)
                  s3 == [s2 EXCEPT !.username = newUsername,
                                   !.recentSearches =
                                       addRecentSearch(@, newUsername)]
                  s4 == [s3 EXCEPT !.isLoading = TRUE, !.error = NoError,
                                   !.loads = @ \cup {Load(newUsername, "profile")},
                                   !.loadGot = NothingGot]
                  s5 == fetchBegin(s4, "profile", newUsername, "load", 0)
              IN  fanOut(s5, newUsername, 1)

\* loadUserData up to its first await
loadUserData(s, newUsername) ==
    IF Falsy(newUsername)
    THEN [s EXCEPT !.error = UsernameRequired]
    ELSE IF s.isLoadingRef
         THEN s      \* console.log('Already loading data, ...'); return
         ELSE LET s1 == [s EXCEPT !.isLoadingRef = TRUE]
                  s2 == clearUserData(s1)
                  s3 == [s2 EXCEPT !.username = newUsername,
                                   !.recentSearches =
                                       addRecentSearch(@, newUsername)]
                  s4 == [s3 EXCEPT !.isLoading = TRUE, !.error = NoError,
                                   !.loads = @ \cup {Load(newUsername, "profile")},
                                   !.loadGot = NothingGot]
              IN  fetchBegin(s4, "profile", newUsername, "load", 0)

loadAfterProfile_NoAbort(s, l, profile, exc) ==
    IF exc.thrown
    THEN loadFinally(loadCatch(s, exc), l)
    ELSE LET s1 == fanOut(s, l.user, 1)
         IN  [s1 EXCEPT !.loads = (@ \ {l}) \cup {Load(l.user, "fanout")}]

\* loadUserData resumed after `await fetchUserProfile(newUsername)`
loadAfterProfile(s, l, profile, exc) ==
    IF exc.thrown
    THEN loadFinally(loadCatch(s, exc), l)
    ELSE IF ~Truthy(profile)
         THEN loadFinally([s EXCEPT !.error = NotFoundOrApiError(l.user),
                                    !.isLoadingRef = FALSE], l)
         ELSE LET s1 == fanOut(s, l.user, 1)
              IN  [s1 EXCEPT !.loads = (@ \ {l}) \cup {Load(l.user, "fanout")}]

LoadRequests(s, u) == {q \in s.pending : q.by = "load" /\ q.user = u}

loadAfterSettle_OnFirst(s, l) == loadFinally(s, l)

\* loadUserData resumed after `await Promise.allSettled([...])`, which
\* happens once none of the six promises is pending
loadAfterSettle(s, l) ==
    IF LoadRequests(s, l.user) = {} THEN loadFinally(s, l) ELSE s

\* the load a request of the composite path belongs to
OwnerLoads(s, q) ==
    {l \in s.loads : /\ l.user = q.user
                     /\ l.stage = IF q.res = "profile" THEN "profile"
                                  ELSE "fanout"}

\* --------------------------------------------------------------- actions
\* loadUserData(newUsername), from any entry point
LoadUserData(newUsername) ==
    Commit(loadUserData(St, newUsername))

FreeSeqs(s) == {i \in 0..(MaxStandalone - 1) :
                   \A q \in s.pending : ~(q.by = "standalone" /\ q.seq = i)}

standaloneFetch_Guarded(s, key, u) ==
    IF s.isLoadingRef THEN s
    ELSE LET free == FreeSeqs(s)
             i == CHOOSE i \in free : \A j \in free : i <= j
         IN  fetchBegin(s, key, u, "standalone", i)

\* a fetch operation called on its own, up to its await
standaloneFetch(s, key, u) ==
    LET free == FreeSeqs(s)
        i == CHOOSE i \in free : \A j \in free : i <= j
    IN  fetchBegin(s, key, u, "standalone", i)

\* one of the seven fetch operations called on its own (retry buttons,
\* page effects): everything up to its await
FetchResource(key, u) ==
    /\ FreeSeqs(St) # {}
    /\ Commit([standaloneFetch(St, key, u) EXCEPT !.fetched = @ + 1])

\* request q settles with HTTP outcome o: the fetch operation that awaits it
\* resumes, and after it the loadUserData invocation awaiting that operation
Settle(q, o, exc) ==
    /\ q \in pending
    /\ LET r == fetchApi(EndpointOf(q), o)
           f == fetchSettled(St, q, r)
           owners == OwnerLoads(f.st, q)
       IN  IF q.by = "load" /\ owners # {}
           THEN LET l == CHOOSE l \in owners : TRUE
                    got == IF Truthy(f.ret) /\ f.ret # EmptyOf(q.res)
                           THEN "present" ELSE "absent"
                    s1 == [f.st EXCEPT !.loadGot[q.res] = got]
                IN  IF q.res = "profile"
                    THEN Commit(loadAfterProfile(s1, l, f.ret, exc))
                    ELSE /\ ~exc.thrown
                         /\ Commit(loadAfterSettle(s1, l))
           ELSE /\ ~exc.thrown
                /\ Commit(f.st)

\* clearUserData() called through the context
ClearUserData ==
    Commit(clearUserData(St))

\* no page that loads data is mounted (the home page)
NoPage == [kind |-> "none", user |-> ""]

\* no API client call is under observation
NoCall == [phase |-> "idle", endpoint |-> [user |-> "", res |-> ""],
           outcome |-> [status |-> 0, body |-> "none"],
           result |-> Resolve(NullValue)]

\* no construction of the provider is under observation
NoStartup == [phase |-> "none", value |-> JsNull]

\* what a session that ended with the history h has left under the key
StoredAs(h) == persistRecentSearches(NoItem, NamesToJs(h))

\* the useState and useRef initial values other than recentSearches
InitProvider ==
    /\ username = ""
    /\ entities = [k \in Keys |-> EmptyOf(k)]
    /\ isLoading = FALSE
    /\ loadingStates = [k \in Keys |-> FALSE]
    /\ error = NoError
    /\ isLoadingRef = FALSE
    /\ pending = {}
    /\ loads = {}
    /\ loadGot = NothingGot
    /\ finished = 0
    /\ fetched = 0
    /\ loadSettled = "none"
    /\ apiCall = NoCall
    /\ page = NoPage
    /\ effectDue = FALSE
    /\ absentSeen = {}
    /\ retried = {}
    /\ hasAttemptedLoad = FALSE
    /\ navigateAfter = ""
    /\ effectCalls = 0
    /\ started = 0
    /\ returned = {}

InitWith(histories) ==
    /\ stored \in {StoredAs(h) : h \in histories}
    /\ startup = NoStartup
    /\ recentSearches = JsToNames(initialRecentSearches(stored))
    /\ contributions = <<>>
    /\ InitProvider

\* a first visit: nothing stored under 'recentSearches'
Init == InitWith({<<>>})

\* the logins of the full-interface specification
Logins == {"a", "c"}

\* every operation of the context, called in any order
Next ==
    /\ \/ \E u \in Logins : finished < MaxLoads /\ LoadUserData(u)
       \/ \E k \in Keys, u \in Logins :
             fetched < MaxFetches /\ FetchResource(k, u)
       \/ \E q \in pending, o \in ServerOutcomes : Settle(q, o, NoException)
    /\ UNCHANGED pageVars

Spec == Init /\ [][Next]_vars

\* the composite entry point alone, with every kind of username and with
\* the histories earlier sessions left behind
InitLoad == InitWith(StoredHistories)

NextLoad ==
    /\ \/ \E u \in Usernames : finished < MaxLoads /\ LoadUserData(u)
       \/ \E q \in pending, o \in LoadOutcomes : Settle(q, o, NoException)
    /\ UNCHANGED pageVars

SpecLoad == InitLoad /\ [][NextLoad]_vars

\* a session of searches: one composite load after the other, for the same
\* login or for another
NextReload ==
    /\ \/ \E u \in Logins : finished < MaxReloads /\ LoadUserData(u)
       \/ \E q \in pending, o \in ServerOutcomes : Settle(q, o, NoException)
    /\ UNCHANGED pageVars

SpecReload == Init /\ [][NextReload]_vars

\* the same, with an exception raised inside the try block of loadUserData
\* once fetchUserProfile has returned, and with every request settling
SettleSome == \E q \in pending, o \in LoadOutcomes : Settle(q, o, NoException)

LoadThrows ==
    \E q \in pending, o \in LoadOutcomes, e \in Exceptions : Settle(q, o, e)

NextLoadExc ==
    /\ \/ \E u \in {"", "a"} : finished < MaxLoads /\ LoadUserData(u)
       \/ SettleSome
       \/ LoadThrows
    /\ UNCHANGED pageVars

SpecLoadExc == Init /\ [][NextLoadExc]_vars

FairLoadSpec ==
    Init /\ [][NextLoadExc]_vars /\ WF_vars(SettleSome /\ UNCHANGED pageVars)

\* the context as a page uses it: composite loads and fetch operations
\* called on their own, overlapping freely, against a backend that knows the
\* login "a" and does not know the login "c"
FetchOutcomes(q) ==
    IF q.user = "a" THEN {[status |-> 200, body |-> "data"]}
    ELSE {[status |-> 404, body |-> "detail"]}

NextFetch ==
    /\ \/ \E u \in Logins : finished < MaxLoads /\ LoadUserData(u)
       \/ \E k \in Keys, u \in Logins :
             fetched < MaxFetches /\ FetchResource(k, u)
       \/ \E q \in pending : \E o \in FetchOutcomes(q) : Settle(q, o, NoException)
    /\ UNCHANGED pageVars

SpecFetch == Init /\ [][NextFetch]_vars

\* fetch operations called on their own while others are in flight and
\* while a composite load runs: fetchUserProfile and fetchLanguages, the six
\* secondary operations differing only in the slot they write
OverlapKeys == {"profile", "languages"}

NextOverlap ==
    /\ \/ \E u \in Logins : finished < MaxLoads /\ LoadUserData(u)
       \/ \E k \in OverlapKeys, u \in Logins :
             fetched < MaxStandalone /\ FetchResource(k, u)
       \/ \E q \in pending : \E o \in FetchOutcomes(q) : Settle(q, o, NoException)
    /\ UNCHANGED pageVars

SpecOverlap == Init /\ [][NextOverlap]_vars

\* the same with clearUserData called at any moment, and with one fetch
\* operation called on its own at a time
StandaloneRequests(s) == {q \in s.pending : q.by = "standalone"}

NextClear ==
    /\ \/ \E u \in Logins : finished < MaxLoads /\ LoadUserData(u)
       \/ \E k \in Keys, u \in Logins :
             /\ fetched < MaxFetches
             /\ StandaloneRequests(St) = {}
             /\ FetchResource(k, u)
       \/ \E q \in pending : \E o \in FetchOutcomes(q) : Settle(q, o, NoException)
       \/ ClearUserData
    /\ UNCHANGED pageVars

SpecClear == Init /\ [][NextClear]_vars

\* ---------------------------------------------------- the API client alone
\* a method of githubInsightsApi is called
ApiCall(endpoint) ==
    /\ apiCall.phase # "pending"
    /\ apiCall' = [NoCall EXCEPT !.phase = "pending", !.endpoint = endpoint]

\* the network answers, fetchApi settles
ApiSettle(o) ==
    /\ apiCall.phase = "pending"
    /\ apiCall' = [apiCall EXCEPT !.phase = "settled", !.outcome = o,
                                  !.result = fetchApi(apiCall.endpoint, o)]

NextApi ==
    /\ \/ \E e \in Endpoints : ApiCall(e)
       \/ \E o \in HttpOutcomes : ApiSettle(o)
    /\ UNCHANGED <<username, entities, isLoading, loadingStates, error,
                   isLoadingRef, recentSearches, pending, loads, loadGot,
                   finished, fetched, loadSettled, stored, startup>>
    /\ UNCHANGED pageVars
    /\ UNCHANGED streakVars

SpecApi == Init /\ [][NextApi]_vars

\* ------------------------------------------------- the provider's startup
\* the tokens of the texts found under the key
TokenAlphabet == {LBracket, RBracket, Comma, NullTok, ObjectTok,
                  StrTok("a"), StrTok("b")}

\* every text of at most MaxStoredTokens tokens, and no item at all
StoredItems ==
    {NoItem} \cup
    {Item(text) : text \in UNION {[1..n -> TokenAlphabet] :
                                     n \in 0..MaxStoredTokens}}

\* the page is opened with anything under the key; startup.value is the
\* value of the recentSearches state, which may be any JSON value
InitStartup ==
    /\ stored \in StoredItems
    /\ startup = [phase |-> "cold", value |-> JsNull]
    /\ recentSearches = <<>>
    /\ contributions = <<>>
    /\ InitProvider

\* UserProvider renders for the first time: the useState initialiser runs
Construct ==
    /\ startup.phase = "cold"
    /\ startup' = [phase |-> "rendered",
                   value |-> initialRecentSearches(stored)]
    /\ UNCHANGED stored

\* the persistence effect runs after the first render; an exception thrown
\* by an effect unmounts the application
RunPersistEffect ==
    /\ startup.phase = "rendered"
    /\ IF LengthThrows(startup.value)
       THEN /\ startup' = [startup EXCEPT !.phase = "crashed"]
            /\ UNCHANGED stored
       ELSE /\ startup' = [startup EXCEPT !.phase = "mounted"]
            /\ stored' = persistRecentSearches(stored, startup.value)

\* the user reloads the page
Reload ==
    /\ startup.phase \in {"mounted", "crashed"}
    /\ startup' = [phase |-> "cold", value |-> JsNull]
    /\ UNCHANGED stored

NextStartup ==
    /\ \/ Construct
       \/ RunPersistEffect
       \/ Reload
    /\ UNCHANGED <<username, entities, isLoading, loadingStates, error,
                   isLoadingRef, recentSearches, pending, loads, loadGot,
                   finished, fetched, loadSettled, apiCall>>
    /\ UNCHANGED pageVars
    /\ UNCHANGED streakVars

SpecStartup == InitStartup /\ [][NextStartup]_vars

\* ------------------------------------------------------------- the pages
PageKinds == {"repositories", "languages", "activity"}

Elems(list) == {list[i] : i \in 1..Len(list)}

\* the datasets a page fetches on its own: LanguagesPage and ActivityPage in
\* their effects and retry handlers, RepositoriesPage in its retry handler
PageKeys(kind) ==
    CASE kind = "repositories" -> <<"repositories">>
      [] kind = "languages" -> <<"languages", "trends">>
      [] kind = "activity" -> <<"activity", "contributions">>

\* calls the fetch operation of every key of the list that is wanted, in
\* list order from index i
RECURSIVE fetchEach(_, _, _, _, _)
fetchEach(s, keys, wanted, u, i) ==
    IF i > Len(keys) THEN s
    ELSE fetchEach(IF keys[i] \in wanted THEN standaloneFetch(s, keys[i], u)
                   ELSE s,
                   keys, wanted, u, i + 1)

\* what the effect of a page fetches on its own: with userData present, the
\* datasets of the page that are falsy; RepositoriesPage fetches nothing
EffectKeys(s, pg) ==
    IF pg.kind = "repositories" \/ ~Truthy(s.entities["profile"]) THEN {}
    ELSE {k \in Elems(PageKeys(pg.kind)) : ~Truthy(s.entities[k])}

\* the body of the useEffect of RepositoriesPage, LanguagesPage, ActivityPage
pageEffect(s, pg) ==
    IF ~Truthy(s.entities["profile"])
    THEN loadUserData(s, pg.user)
    ELSE fetchEach(s, PageKeys(pg.kind), EffectKeys(s, pg), pg.user, 1)

\* the backend of the page specification: the user may exist or not, and
\* none of the other datasets is available
PageOutcomes(q) ==
    IF q.res = "profile" THEN ServerOutcomes
    ELSE {[status |-> 404, body |-> "detail"]}

\* the requests a handler issued
Issued(s0, s1) == {<<q.user, q.res>> : q \in s1.pending \ s0.pending}

\* the user opens /user/u/<kind>
Mount(kind, u) ==
    /\ page = NoPage
    /\ page' = [kind |-> kind, user |-> u]
    /\ effectDue' = TRUE
    /\ absentSeen' = {}
    /\ Commit(St)
    /\ UNCHANGED retried
    /\ UNCHANGED userPageVars

\* the effect of the mounted page runs after a render: its dependencies
\* hold loadUserData and the fetch operations, which are new functions in
\* every render of the provider
PageEffect ==
    /\ page # NoPage
    /\ effectDue
    /\ Cardinality(EffectKeys(St, page)) <= Cardinality(FreeSeqs(St))
    /\ (~Truthy(entities["profile"]) /\ ~isLoadingRef)
          => finished < MaxPageLoads
    /\ LET s1 == pageEffect(St, page)
       IN  /\ Commit(s1)
           /\ effectDue' = (s1 # St)
           /\ retried' = retried \cup (Issued(St, s1) \cap absentSeen)
    /\ UNCHANGED <<page, absentSeen>>
    /\ UNCHANGED userPageVars

\* a response arrives while a page is mounted
PageSettle(q, o) ==
    /\ page # NoPage
    /\ Settle(q, o, NoException)
    /\ LET r == fetchApi(EndpointOf(q), o)
       IN  absentSeen' = IF r.kind = "resolve" /\ Truthy(r.value)
                         THEN absentSeen
                         ELSE absentSeen \cup {<<q.user, q.res>>}
    /\ effectDue' = TRUE
    /\ UNCHANGED <<page, retried>>
    /\ UNCHANGED userPageVars

\* the user clicks the retry button of the page's error message
PageRetry ==
    /\ page # NoPage
    /\ error # NoError
    /\ Len(PageKeys(page.kind)) <= Cardinality(FreeSeqs(St))
    /\ Commit(fetchEach(St, PageKeys(page.kind), Keys, page.user, 1))
    /\ effectDue' = TRUE
    /\ absentSeen' = {}
    /\ UNCHANGED <<page, retried>>
    /\ UNCHANGED userPageVars

NextPages ==
    \/ \E kind \in PageKinds, u \in Logins : Mount(kind, u)
    \/ PageEffect
    \/ \E q \in pending : \E o \in PageOutcomes(q) : PageSettle(q, o)
    \/ PageRetry

SpecPages == Init /\ [][NextPages]_vars

\* ------------------------------------------- the home page and UserPage
UserPageOf(u) == [kind |-> "user", user |-> u]

\* the call passed the guard of loadUserData
Accepted(s0, s1) == ~s0.isLoadingRef /\ s1.isLoadingRef

Count(b) == IF b THEN 1 ELSE 0

\* navigate(`/user/${u}`): UserPage is mounted afresh when another page was
\* shown, and stays mounted, with its state, when only :username changes
navigateToUser(u) ==
    /\ page' = UserPageOf(u)
    /\ effectDue' = TRUE
    /\ hasAttemptedLoad' = IF page.kind = "user" THEN hasAttemptedLoad
                           ELSE FALSE
    /\ effectCalls' = IF page = UserPageOf(u) THEN effectCalls ELSE 0

\* HomePage handleSubmit with a trimmed, non-empty input: it awaits
\* loadUserData and navigates when that promise has settled
HomeSubmit(u) ==
    /\ page = NoPage
    /\ navigateAfter = ""
    /\ finished < MaxPageLoads
    /\ LET s1 == loadUserData(St, u)
       IN  /\ Commit(s1)
           /\ started' = Count(Accepted(St, s1))
           /\ IF s1.loads # {}
              THEN /\ navigateAfter' = u
                   /\ UNCHANGED <<page, effectDue, hasAttemptedLoad,
                                  effectCalls>>
              ELSE /\ navigateAfter' = ""
                   /\ navigateToUser(u)
    /\ UNCHANGED <<absentSeen, retried>>

\* HomePage handleRecentSearchClick: loadUserData is not awaited
HomeRecentSearchClick(u) ==
    /\ page = NoPage
    /\ navigateAfter = ""
    /\ finished < MaxPageLoads
    /\ LET s1 == loadUserData(St, u)
       IN  /\ Commit(s1)
           /\ started' = Count(Accepted(St, s1))
    /\ navigateToUser(u)
    /\ UNCHANGED <<navigateAfter, absentSeen, retried>>

\* the address /user/u is opened from the home page without a search, or
\* the browser moves through its history from /user/x to /user/u
OpenUserRoute(u) ==
    /\ page = NoPage \/ (page.kind = "user" /\ page.user # u)
    /\ navigateAfter = ""
    /\ navigateToUser(u)
    /\ started' = 0
    /\ Commit(St)
    /\ UNCHANGED <<navigateAfter, absentSeen, retried>>

\* the link to the home page in the header
GoHome ==
    /\ page.kind = "user"
    /\ page' = NoPage
    /\ effectDue' = FALSE
    /\ hasAttemptedLoad' = FALSE
    /\ effectCalls' = 0
    /\ Commit(St)
    /\ UNCHANGED <<navigateAfter, started, absentSeen, retried>>

\* the useEffect of UserPage, which runs after every render of the provider
\* because loadUserData is among its dependencies
UserPageEffect ==
    /\ page.kind = "user"
    /\ effectDue
    /\ IF page.user # "" /\ ~hasAttemptedLoad
       THEN /\ finished < MaxPageLoads
            /\ hasAttemptedLoad' = TRUE
            /\ LET s1 == loadUserData(St, page.user)
               IN  /\ Commit(s1)
                   /\ started' = started + Count(Accepted(St, s1))
            /\ effectCalls' = effectCalls + 1
            /\ effectDue' = TRUE
       ELSE /\ Commit(St)
            /\ effectDue' = FALSE
            /\ UNCHANGED <<hasAttemptedLoad, effectCalls, started>>
    /\ UNCHANGED <<page, navigateAfter, absentSeen, retried>>

\* UserPage handleRetry, offered while error && hasAttemptedLoad
UserPageRetry ==
    /\ page.kind = "user"
    /\ error # NoError
    /\ hasAttemptedLoad
    /\ hasAttemptedLoad' = FALSE
    /\ effectDue' = TRUE
    /\ effectCalls' = 0
    /\ started' = 0
    /\ Commit(St)
    /\ UNCHANGED <<page, navigateAfter, absentSeen, retried>>

\* a response arrives; a search form suspended at `await loadUserData(...)`
\* resumes and navigates when the load this ends is the one it awaits
HomeSettle(q, o) ==
    /\ Settle(q, o, NoException)
    /\ IF navigateAfter # "" /\ loads' = {}
       THEN /\ navigateAfter' = ""
            /\ navigateToUser(navigateAfter)
       ELSE /\ effectDue' = (page.kind = "user")
            /\ UNCHANGED <<page, navigateAfter, hasAttemptedLoad, effectCalls>>
    /\ UNCHANGED <<started, absentSeen, retried>>

NextHome ==
    \/ \E u \in Logins : HomeSubmit(u)
    \/ \E u \in Logins : u \in Elems(recentSearches) /\ HomeRecentSearchClick(u)
    \/ \E u \in Logins : OpenUserRoute(u)
    \/ GoHome
    \/ UserPageEffect
    \/ UserPageRetry
    \/ \E q \in pending : \E o \in FetchOutcomes(q) : HomeSettle(q, o)

\* the session starts with the history an earlier session left behind
SpecHome == InitWith({<<"c", "a">>}) /\ [][NextHome]_vars

\* ------------------------------------------------- utils/dateUtils.js
\* a Date object, as far as its calendar day goes
DateObj(y, m, d) == [year |-> y, month |-> m, day |-> d]

IsLeapYear(y) == (y % 4 = 0 /\ y % 100 # 0) \/ y % 400 = 0

DaysInMonth(y, m) ==
    IF m = 2 THEN (IF IsLeapYear(y) THEN 29 ELSE 28)
    ELSE IF m \in {4, 6, 9, 11} THEN 30 ELSE 31

\* date.setDate(date.getDate() - i): i days before the date
RECURSIVE setDateBack(_, _)
setDateBack(date, i) ==
    IF i = 0 THEN date
    ELSE IF date.day > 1
         THEN setDateBack([date EXCEPT !.day = @ - 1], i - 1)
         ELSE IF date.month > 1
              THEN setDateBack(DateObj(date.year, date.month - 1,
                                       DaysInMonth(date.year,
                                                   date.month - 1)),
                               i - 1)
              ELSE setDateBack(DateObj(date.year - 1, 12, 31), i - 1)

\* strings are sequences of UTF-16 code units
Hyphen == 45
DigitZero == 48

\* String(n) of a natural number
RECURSIVE StringOf(_)
StringOf(n) ==
    IF n < 10 THEN <<DigitZero + n>>
    ELSE StringOf(n \div 10) \o <<DigitZero + (n % 10)>>

\* str.padStart(len, '0')
RECURSIVE padStart(_, _)
padStart(str, len) ==
    IF Len(str) >= len THEN str ELSE padStart(<<DigitZero>> \o str, len)

\* `${year}-${month}-${day}` with month and day padded to two digits
formatDate(date) ==
    StringOf(date.year) \o <<Hyphen>> \o padStart(StringOf(date.month), 2)
        \o <<Hyphen>> \o padStart(StringOf(date.day), 2)

\* the set of the dates getDateRange(daysAgo) returns when run on today
getDateRange(today, daysAgo) ==
    {formatDate(setDateBack(today, i)) : i \in 0..(daysAgo - 1)}

\* the days on which a date range is asked for: the first of a month
\* with two digits after one with one digit, and the first of a year
Todays == {DateObj(2024, 10, 1), DateObj(2025, 1, 1)}

DateKeys == UNION {getDateRange(today, MaxDaysAgo) : today \in Todays}

\* contributions objects: dates as keys and counts as values
Contributions ==
    UNION {[keys -> 0..MaxCount] : keys \in SUBSET DateKeys}

\* a < b in the order of Array.prototype.sort without a comparator:
\* code unit by code unit, a proper prefix first
RECURSIVE CodeUnitLess(_, _)
CodeUnitLess(a, b) ==
    IF b = <<>> THEN FALSE
    ELSE IF a = <<>> THEN TRUE
    ELSE IF Head(a) # Head(b) THEN Head(a) < Head(b)
    ELSE CodeUnitLess(Tail(a), Tail(b))

\* Object.keys(obj).sort()
RECURSIVE sortedKeys(_)
sortedKeys(keys) ==
    IF keys = {} THEN <<>>
    ELSE LET first == CHOOSE k \in keys :
                         \A j \in keys \ {k} : CodeUnitLess(k, j)
         IN  <<first>> \o sortedKeys(keys \ {first})

\* array.reverse()
reverse(array) == [i \in 1..Len(array) |-> array[Len(array) + 1 - i]]

MathMax(a, b) == IF a >= b THEN a ELSE b

\* for (const date of sortedDates) of calculateCurrentStreak, from the
\* i-th date on
RECURSIVE currentStreakLoop(_, _, _, _)
currentStreakLoop(c, sortedDates, i, streak) ==
    IF i > Len(sortedDates) THEN streak
    ELSE IF c[sortedDates[i]] > 0
         THEN currentStreakLoop(c, sortedDates, i + 1, streak + 1)
         ELSE streak

calculateCurrentStreak_NoReverse(c) ==
    currentStreakLoop(c, sortedKeys(DOMAIN c), 1, 0)

calculateCurrentStreak(c) ==
    currentStreakLoop(c, reverse(sortedKeys(DOMAIN c)), 1, 0)

\* for (const date of sortedDates) of calculateLongestStreak
RECURSIVE longestStreakLoop(_, _, _, _, _)
longestStreakLoop(c, sortedDates, i, currentStreak, longestStreak) ==
    IF i > Len(sortedDates) THEN longestStreak
    ELSE IF c[sortedDates[i]] > 0
         THEN longestStreakLoop(c, sortedDates, i + 1, currentStreak + 1,
                                MathMax(longestStreak, currentStreak + 1))
         ELSE longestStreakLoop(c, sortedDates, i + 1, 0, longestStreak)

calculateLongestStreak(c) ==
    longestStreakLoop(c, sortedKeys(DOMAIN c), 1, 0, 0)

Returned(fn) == {r \in returned : r.fn = fn}

InitStreaks ==
    /\ stored \in {StoredAs(<<>>)}
    /\ startup = NoStartup
    /\ recentSearches = JsToNames(initialRecentSearches(stored))
    /\ contributions \in Contributions
    /\ InitProvider

CallCurrentStreak ==
    /\ Returned("calculateCurrentStreak") = {}
    /\ returned' = returned \cup
                      {[fn |-> "calculateCurrentStreak",
                        ret |-> calculateCurrentStreak(contributions)]}

CallLongestStreak ==
    /\ Returned("calculateLongestStreak") = {}
    /\ returned' = returned \cup
                      {[fn |-> "calculateLongestStreak",
                        ret |-> calculateLongestStreak(contributions)]}

NextStreaks ==
    /\ \/ CallCurrentStreak
       \/ CallLongestStreak
    /\ UNCHANGED contributions
    /\ UNCHANGED appVars

SpecStreaks == InitStreaks /\ [][NextStreaks]_vars

\* ==================================================================== claims
NoDuplicates(list) ==
    \A i, j \in 1..Len(list) : i # j => list[i] # list[j]

\* position of name in list, 0 when it is not there
Pos(list, name) ==
    IF name \in Elems(list)
    THEN CHOOSE i \in 1..Len(list) : list[i] = name
    ELSE 0

\* the state of the provider that a caller of the context can tell apart
ProviderState == <<username, entities, isLoading, loadingStates, error,
                   isLoadingRef, recentSearches, pending, loads>>

\* a loadUserData invocation passes the guard in this step
LoadAccepted == ~isLoadingRef /\ isLoadingRef'

\* C1: in every reachable state at most one loadUserData invocation has
\* passed the guard and not yet completed.
C1_AtMostOneLoadInFlight == Cardinality(loads) <= 1

C1_Witness ==
    /\ \E l \in loads : l.stage = "fanout"
    /\ isLoadingRef
    /\ Cardinality({q \in pending : q.by = "load"}) = 3

\* C2 as stated: whatever the username, a loadUserData call made while the
\* guard is set changes nothing.
C2_GuardedCallChangesNothing ==
    [][(isLoadingRef /\ \E u \in Usernames : LoadUserData(u))
          => UNCHANGED ProviderState]_vars

\* C2 amended: for every non-empty username, a loadUserData call made while
\* the guard is set changes no entity, flag, error slot, username or
\* RecentSearches entry and issues no request.
C2_GuardedNonEmptyCallChangesNothing ==
    [][(isLoadingRef /\ \E u \in Usernames \ {""} : LoadUserData(u))
          => UNCHANGED ProviderState]_vars

C2_Witness ==
    /\ isLoadingRef
    /\ pending = {Request("profile", username, "load", 0)}
    /\ loadingStates["profile"]

\* !username.trim(): empty or whitespace-only
IsBlank(u) == u \in {"", " "}

\* C3: for every empty or whitespace-only username loadUserData changes
\* nothing but the error slot, which becomes "Username is required", and
\* issues no request.
C3_BlankUsernameRejected ==
    [][\A u \in Usernames :
          (IsBlank(u) /\ LoadUserData(u))
              => /\ error' = UsernameRequired
                 /\ UNCHANGED <<username, entities, isLoading, loadingStates,
                                isLoadingRef, recentSearches, pending, loads>>
      ]_vars

\* the six secondary requests of the composite path
SecondaryLoadRequests == {q \in pending : q.by = "load" /\ q.res \in Secondary}

\* C4: when the profile fetch of a composite load returns absent, the load
\* issues none of the six secondary fetches, and the step that delivers the
\* absent profile leaves a message naming the requested username in the error
\* slot and releases the aggregate loading flag and the guard.
C4_AbsentProfileAborts ==
    /\ [](loadGot["profile"] = "absent"
            => /\ SecondaryLoadRequests = {}
               /\ \A k \in Secondary : loadGot[k] = "none"
               /\ \A k \in Secondary : ~loadingStates[k]
               /\ ~isLoadingRef
               /\ ~isLoading
               /\ loads = {})
    /\ [][(loadGot["profile"] # "absent" /\ loadGot'["profile"] = "absent")
            => /\ error' = NotFoundOrApiError(username)
               /\ username' = username
               /\ username \in Elems(error')
               /\ pending' = {}]_vars

C4_Witness ==
    /\ loadGot["profile"] = "absent"
    /\ error = NotFoundOrApiError(username)
    /\ username = "c"

\* the composite load has settled its profile and all six secondary fetches
LoadComplete ==
    /\ loadGot["profile"] = "present"
    /\ \A k \in Secondary : loadGot[k] # "none"

\* C5: after a present profile, whatever subset of the six secondary fetches
\* returns absent, at completion every failed resource holds its empty
\* representation, every other resource holds the data fetched for it, and
\* no fetch has put a message in the error slot; a secondary fetch that
\* fails leaves the other secondary requests in flight.
C5_PartialFailureIsLocal ==
    /\ [](LoadComplete
            => /\ \A k \in Secondary :
                     /\ loadGot[k] = "absent" => entities[k] = EmptyOf(k)
                     /\ loadGot[k] = "present"
                            => entities[k] = Payload(username, k)
               /\ entities["profile"] = Payload(username, "profile")
               /\ error \in {NoError, UsernameRequired}
               /\ ~isLoadingRef)
    /\ [][\A k \in Secondary :
             (loadGot[k] = "none" /\ loadGot'[k] = "absent")
                => /\ error' = error
                   /\ \A k2 \in Secondary \ {k} :
                         /\ entities'[k2] = entities[k2]
                         /\ loadGot[k2] = "none"
                              => Request(k2, username, "load", 0) \in pending'
      ]_vars

C5_Witness ==
    /\ LoadComplete
    /\ loadGot["languages"] = "absent"
    /\ \A k \in Secondary \ {"languages"} :
          loadGot[k] = "present" /\ entities[k] = Payload(username, k)
    /\ entities["languages"] = NullValue
    /\ error = NoError

\* C6: RecentSearches has at most 5 entries and no duplicate; an accepted
\* load puts its username at index 0, keeps the other entries in their
\* order, removes the earlier occurrence of that username and drops the
\* last entry when the list would grow beyond 5.
C6_RecentSearchesBounded ==
    /\ [](Len(recentSearches) <= MAX_RECENT /\ NoDuplicates(recentSearches))
    /\ [][LoadAccepted =>
            LET old == recentSearches
                new == recentSearches'
                u == username'
            IN  /\ new[1] = u
                /\ u \in Elems(old) => Elems(new) = Elems(old)
                /\ (u \notin Elems(old) /\ Len(old) < MAX_RECENT)
                      => Elems(new) = Elems(old) \cup {u}
                /\ (u \notin Elems(old) /\ Len(old) = MAX_RECENT)
                      => Elems(new) = (Elems(old) \ {old[MAX_RECENT]}) \cup {u}
                /\ \A x, y \in Elems(new) \ {u} :
                      Pos(new, x) < Pos(new, y) <=> Pos(old, x) < Pos(old, y)
         ]_vars

C6_Witness == recentSearches = <<"c", "e", "d", "c2", "b">>

\* C7: in every state the aggregate flag isLoading is the logical OR of the
\* seven per-resource flags of loadingStates.
C7_AggregateIsOrOfFlags == isLoading = AnyLoading(loadingStates)

\* C8: every loadUserData invocation that passed the guard clears the
\* aggregate loading flag and the guard once its requests have settled, also
\* when the profile is absent, when secondary fetches fail and when its own
\* control flow throws; a new call is then accepted.
C8_GuardEventuallyReleased ==
    isLoadingRef ~> (~isLoadingRef /\ ~isLoading /\ loads = {})

C8_Witness ==
    /\ finished > 0
    /\ ~isLoadingRef
    /\ ~isLoading
    /\ error = UnexpectedError

\* what JSON.parse makes of a well-formed body
ParsedBody(endpoint, body) ==
    CASE body = "null" -> NullValue
      [] body = "false" -> FalseValue
      [] body = "object" -> EmptyObject
      [] body = "detail" -> DetailObject
      [] body = "data" -> Payload(endpoint.user, endpoint.res)

\* C9: fetchApi never rejects; a network failure, a non-2xx status and an
\* unparseable 2xx body resolve to null, a parseable 2xx body resolves to
\* the parsed body itself.
C9_FetchApiNeverRejects ==
    apiCall.phase = "settled"
        => /\ apiCall.result.kind = "resolve"
           /\ IF \/ apiCall.outcome.status = 0
                 \/ apiCall.outcome.status < 200
                 \/ apiCall.outcome.status > 299
                 \/ apiCall.outcome.body = "unparseable"
              THEN apiCall.result.value = NullValue
              ELSE apiCall.result.value =
                       ParsedBody(apiCall.endpoint, apiCall.outcome.body)

C9_Witness ==
    /\ apiCall.phase = "settled"
    /\ apiCall.outcome = [status |-> 500, body |-> "null"]
    /\ apiCall.result = Resolve(NullValue)

\* C10: nothing is retried automatically: a request for a user and resource
\* that has returned absent is issued again only by a user action, never by
\* the effect of a mounted page.
C10_NothingRetriedAutomatically == retried = {}

\* C11: a composite load has secondary requests in flight only once its
\* profile request has returned a present result, and it issues them in the
\* very step in which that result arrives; they then settle in any order.
C11_ProfilePrecedesSecondary ==
    /\ [](SecondaryLoadRequests # {}
            => /\ loadGot["profile"] = "present"
               /\ entities["profile"] = Payload(username, "profile"))
    /\ [][\A k \in Secondary :
             Request(k, username', "load", 0) \in pending' \ pending
                => /\ loadGot["profile"] = "none"
                   /\ loadGot'["profile"] = "present"
                   /\ Request("profile", username, "load", 0) \in pending
      ]_vars

C11_Witness ==
    /\ loadGot["profile"] = "present"
    /\ loadGot["contributions"] = "present"
    /\ loadGot["insights"] = "absent"
    /\ loadGot["repositories"] = "none"
    /\ Request("repositories", username, "load", 0) \in pending

\* C12: a composite load whose profile fetch succeeded releases the guard
\* only in the step in which the last of its six secondary fetches settles:
\* while one of them is in flight the guard is held, and once the guard is
\* released none of them is in flight.
C12_CompletesAfterAllSettled ==
    /\ [](~isLoadingRef => {q \in pending : q.by = "load"} = {})
    /\ []((loadGot["profile"] = "present"
              /\ \E k \in Secondary : loadGot[k] = "none")
            => isLoadingRef /\ loads # {})
    /\ [][(isLoadingRef /\ ~isLoadingRef' /\ loadGot["profile"] = "present")
            => /\ \A k \in Secondary : loadGot'[k] # "none"
               /\ \E k \in Secondary : loadGot[k] = "none"
               /\ ~isLoading'
               /\ pending' = {}]_vars

C12_Witness ==
    /\ ~isLoadingRef
    /\ finished = 1
    /\ LoadComplete
    /\ loadGot["repositories"] = "absent"
    /\ loadGot["trends"] = "present"
    /\ pending = {}

\* what a client call may settle to: a present body, null, a rejection
ClientResults(q) ==
    {Resolve(Payload(q.user, q.res)), Resolve(NullValue), Reject("error")}

\* the requests in flight for resource k
InFlight(k) == {q \in pending : q.res = k}

\* C13: for each of the seven resources, whenever no fetch of it is in
\* flight its loading flag is false; and whatever a fetch settles to
\* (present, absent, thrown), the fetch operation ends with the flag of its
\* resource false and with the flags of the other resources as they were.
C13_IdleResourceFlagIsFalse ==
    /\ \A k \in Keys : InFlight(k) = {} => ~loadingStates[k]
    /\ \A q \in pending : \A r \in ClientResults(q) :
          LET after == fetchSettled(St, q, r).st.loadingStates
          IN  /\ ~after[q.res]
              /\ \A k \in Keys \ {q.res} : after[k] = loadingStates[k]

C13_Witness ==
    /\ isLoadingRef
    /\ fetched = 1
    /\ loadGot["repositories"] = "present"
    /\ entities["repositories"] = EmptyList
    /\ InFlight("repositories") = {}
    /\ ~loadingStates["repositories"]
    /\ loadingStates["languages"]

\* C14: whatever its slot holds, a secondary fetch operation that gets a
\* present result stores it in its slot and returns it, and one that gets
\* an absent result or a thrown error puts the empty representation of its
\* resource in its slot and returns that; the slot of a request that has
\* just settled holds the served data or the empty representation.
C14_AbsentResultEmptiesSlot ==
    /\ [](\A q \in pending : \A r \in ClientResults(q) :
            q.res \in Secondary
               => LET f == fetchSettled(St, q, r)
                      expected == IF r = Resolve(Payload(q.user, q.res))
                                  THEN Payload(q.user, q.res)
                                  ELSE EmptyOf(q.res)
                  IN  /\ f.st.entities[q.res] = expected
                      /\ f.ret = expected)
    /\ [][\A q \in pending \ pending' :
             q.res \in Secondary
                => entities'[q.res] = IF q.user = "a"
                                      THEN Payload(q.user, q.res)
                                      ELSE EmptyOf(q.res)]_vars

C14_Witness ==
    /\ loadGot["languages"] = "present"
    /\ loadGot["repositories"] = "present"
    /\ fetched = 1
    /\ username = "a"
    /\ InFlight("languages") = {}
    /\ entities["languages"] = NullValue
    /\ entities["repositories"] = Payload("a", "repositories")

\* C15: clearUserData puts the empty representation in all seven entity
\* slots and null in the error slot, leaves the username, RecentSearches,
\* the seven loading flags, the aggregate flag, the guard and the requests
\* in flight as they are, and applying it twice gives what applying it once
\* gives.
C15_ClearUserDataResetsEntitiesOnly ==
    /\ [](LET c == clearUserData(St)
          IN  /\ \A k \in Keys : c.entities[k] = EmptyOf(k)
              /\ c.error = NoError
              /\ c = [St EXCEPT !.entities = c.entities, !.error = c.error]
              /\ clearUserData(c) = c)
    /\ [][ClearUserData
            => /\ entities' = [k \in Keys |-> EmptyOf(k)]
               /\ error' = NoError
               /\ UNCHANGED <<username, recentSearches, loadingStates,
                              isLoading, isLoadingRef, pending, loads>>]_vars

C15_Witness ==
    /\ LoadComplete
    /\ \A k \in Keys : loadGot[k] = "present"
    /\ username = "a"
    /\ recentSearches = <<"a">>
    /\ entities = [k \in Keys |-> EmptyOf(k)]
    /\ error = NoError
    /\ fetched = 0

\* an array whose elements are all strings
IsListOfNames(v) ==
    v.tag = "list" /\ \A i \in 1..Len(v.items) : v.items[i].tag = "string"

\* C16: whatever is under the key, the provider starts without an
\* exception and RecentSearches is a list of usernames; with nothing under
\* the key or an unparseable text it is the empty list.
C16_StartupNeverCrashes ==
    /\ startup.phase # "crashed"
    /\ startup.phase \in {"rendered", "mounted"}
          => /\ IsListOfNames(startup.value)
             /\ (~stored.present \/ ~JSONparse(stored.text).ok)
                    => startup.value = JsList(<<>>)

\* C17: once the persistence effect has run after an accepted load, the
\* text under the key is the JSON encoding of the current RecentSearches;
\* what is stored is always a list of at most 5 usernames, never the empty
\* list, and a restart would read back exactly the current RecentSearches.
C17_StoredHistoryRoundTrips ==
    /\ recentSearches # <<>>
          => stored = Item(JSONstringify(NamesToJs(recentSearches)))
    /\ stored # Item(JSONstringify(JsList(<<>>)))
    /\ stored.present
          => LET p == JSONparse(stored.text)
             IN  /\ p.ok
                 /\ IsListOfNames(p.value)
                 /\ Len(p.value.items) \in 1..MAX_RECENT
    /\ JsToNames(initialRecentSearches(stored)) = recentSearches

C17_Witness ==
    /\ recentSearches = <<"c", "b", "a">>
    /\ stored = Item(<<LBracket, StrTok("c"), Comma, StrTok("b"), Comma,
                       StrTok("a"), RBracket>>)
    /\ isLoadingRef

\* C18: no generation check on write: a present result is written into its
\* entity slot whatever the current username is, also when a composite load
\* for another username was accepted while the request was in flight, so
\* the current username can be "c" while a slot holds data fetched for "a".
C18_LateResultIsWritten ==
    [][\A q \in pending \ pending' :
          q.user = "a" => entities'[q.res] = Payload(q.user, q.res)]_vars

C18_Witness ==
    /\ username = "c"
    /\ isLoadingRef
    /\ Request("profile", "c", "load", 0) \in pending
    /\ entities["repositories"] = Payload("a", "repositories")

\* C19: when only loadUserData drives the state, every request in flight
\* was issued for the current username and every entity slot is empty or
\* holds the data fetched for the current username.
C19_LoadsShowCurrentUserOnly ==
    /\ \A q \in pending : q.user = username
    /\ \A k \in Keys :
          entities[k] # EmptyOf(k) => entities[k] = Payload(username, k)

C19_Witness ==
    /\ username = "c"
    /\ recentSearches = <<"c", "a">>
    /\ finished = 1
    /\ isLoadingRef
    /\ entities["profile"] = Payload("c", "profile")
    /\ entities["trends"] = Payload("c", "trends")
    /\ entities["repositories"] = EmptyList
    /\ Request("repositories", "c", "load", 0) \in pending

\* C20: whatever a fetch of resource X settles to, the fetch operation
\* leaves the other six entity slots, the username, RecentSearches and the
\* guard as they were, and for the six secondary resources the error slot
\* too; and an entity slot changes only in a step in which a request for
\* its own resource settles or in which clearUserData empties all seven.
C20_SlotChangesOnlyByOwnFetchOrClear ==
    /\ [](\A q \in pending : \A r \in ClientResults(q) :
            LET f == fetchSettled(St, q, r).st
            IN  /\ \A k \in Keys \ {q.res} : f.entities[k] = entities[k]
                /\ f.username = username
                /\ f.recentSearches = recentSearches
                /\ f.isLoadingRef = isLoadingRef
                /\ q.res \in Secondary => f.error = error)
    /\ [][\A k \in Keys :
             entities'[k] # entities[k]
                => \/ \E q \in pending \ pending' : q.res = k
                   \/ entities' = [k2 \in Keys |-> EmptyOf(k2)]]_vars

C20_Witness ==
    /\ username = "a"
    /\ fetched = 1
    /\ \A k \in Keys : loadGot[k] = "present"
    /\ InFlight("repositories") = {}
    /\ entities["repositories"] = EmptyList
    /\ \A k \in Keys \ {"repositories"} : entities[k] = Payload("a", k)
    /\ error = NoError

\* C21: only loadUserData reads and writes the guard: a fetch operation
\* called on its own issues its request and raises its flag whether the
\* guard is set or not, leaves the guard as it is when it is called and
\* when its request settles, whatever the outcome; fetches called on their
\* own are in flight together with each other and with a composite load.
C21_GuardIsLoadUserDataOnly ==
    /\ [](\A k \in Keys, u \in Logins :
            FreeSeqs(St) # {}
               => LET s == standaloneFetch(St, k, u)
                  IN  /\ s.isLoadingRef = isLoadingRef
                      /\ s.loadingStates[k]
                      /\ \E q \in s.pending \ pending :
                            q.res = k /\ q.user = u /\ q.by = "standalone")
    /\ [](\A q \in StandaloneRequests(St) : \A r \in ClientResults(q) :
            fetchSettled(St, q, r).st.isLoadingRef = isLoadingRef)
    /\ [][(\E k \in OverlapKeys, u \in Logins : FetchResource(k, u))
            => isLoadingRef' = isLoadingRef /\ pending' # pending]_vars
    /\ [][(\E q \in pending \ pending' : q.by = "standalone")
            => isLoadingRef' = isLoadingRef]_vars

C21_Witness ==
    /\ isLoadingRef
    /\ Cardinality(StandaloneRequests(St)) = 2
    /\ Request("languages", "a", "load", 0) \in pending
    /\ Request("trends", "a", "load", 0) \notin pending

\* C22: an exception thrown in the try block of loadUserData after the
\* guard was taken is caught: the promise of loadUserData is fulfilled, the
\* error slot holds the message of the exception, or "An unexpected error
\* occurred" when it has none, and the step that catches it clears the
\* aggregate loading flag and the guard.
C22_OwnExceptionIsCaught ==
    /\ [](loadSettled # "rejected")
    /\ [][(loadSettled = "none" /\ loadSettled' # "none")
            => /\ loadSettled' = "fulfilled"
               /\ isLoadingRef /\ ~isLoadingRef'
               /\ ~isLoading'
               /\ loads' = {}
               /\ error' \in {ErrorMessage("Network down"), UnexpectedError}
      ]_vars
    /\ [](\A l \in loads, e \in Exceptions :
            LET s == loadAfterProfile(St, l, NullValue, e)
            IN  /\ s.error = IF e.message = "" THEN UnexpectedError
                              ELSE ErrorMessage(e.message)
                /\ ~s.isLoading
                /\ ~s.isLoadingRef
                /\ s.loadSettled = "fulfilled")

C22_Witness ==
    /\ loadSettled = "fulfilled"
    /\ error = ErrorMessage("Network down")
    /\ finished = 1
    /\ ~isLoadingRef
    /\ ~isLoading

\* C23: a mounted UserPage whose effect has run for the current route
\* username has called loadUserData exactly once for it: once after the
\* mount, not again on re-renders, and once more after the route username
\* has changed.
C23_UserPageLoadsOncePerUsername ==
    (page.kind = "user" /\ ~effectDue) => effectCalls = 1

\* C24: choosing a user on the home page, through the search form or
\* through a recent search, starts at most one composite load before the
\* user acts again.
C24_OneLoadPerChoice == started <= 1

\* C25: for each resource, whenever at least one fetch of it is in flight
\* its loading flag is true, also when two fetches of the same resource
\* overlap and the first of them has completed.
C25_FlagIsTrueWhileInFlight ==
    \A k \in Keys : InFlight(k) # {} => loadingStates[k]

\* C26: nothing but the settling of its requests ends a composite load:
\* while the guard is set a request of the load is in flight and every
\* loadUserData call with a non-empty username changes nothing, and the
\* guard is released only in a step in which a request of the load settles;
\* so if that request never settles the guard stays set for ever.
C26_NoDeadlineOnLoad ==
    /\ [](isLoadingRef
            => /\ \E q \in pending : q.by = "load"
               /\ \A u \in Usernames \ {""} : loadUserData(St, u) = St)
    /\ [][isLoadingRef
            => \/ isLoadingRef' /\ loads' = loads
               \/ \E q \in pending \ pending' : q.by = "load"]_vars

C26_Witness ==
    /\ isLoadingRef
    /\ finished = 1
    /\ username = "a"
    /\ recentSearches = <<"a", "c">>
    /\ pending = {Request("insights", "a", "load", 0)}

\* C27: an accepted loadUserData(u) makes u the current username and the
\* first entry of RecentSearches and has the list persisted, before the
\* profile is known; when the profile then turns out absent, u is still the
\* current username, the first entry and in the stored list.
C27_UsernameRecordedBeforeCheck ==
    /\ [][\A u \in Logins :
             (LoadUserData(u) /\ LoadAccepted)
                => /\ username' = u
                   /\ Len(recentSearches') > 0
                   /\ recentSearches'[1] = u
                   /\ stored' = Item(JSONstringify(NamesToJs(recentSearches')))
                   /\ loadGot'["profile"] = "none"]_vars
    /\ [](loadGot["profile"] = "absent"
            => /\ Len(recentSearches) > 0
               /\ recentSearches[1] = username
               /\ stored = Item(JSONstringify(NamesToJs(recentSearches)))
               /\ StrTok(username) \in Elems(stored.text))

C27_Witness ==
    /\ loadGot["profile"] = "absent"
    /\ username = "c"
    /\ error = NotFoundOrApiError("c")
    /\ recentSearches = <<"c", "a">>
    /\ stored = Item(<<LBracket, StrTok("c"), Comma, StrTok("a"), RBracket>>)

\* C28: loadUserData('') called while a composite load is in flight puts
\* "Username is required" in the error slot and changes nothing else: not
\* the guard, the flags, the entities, the username, RecentSearches, what is
\* stored or the requests in flight; the load in flight still runs to its
\* end and releases the guard.
C28_EmptyCallDuringLoadOnlySetsError ==
    /\ [][(isLoadingRef /\ LoadUserData(""))
            => /\ error' = UsernameRequired
               /\ UNCHANGED <<username, entities, isLoading, loadingStates,
                              isLoadingRef, recentSearches, pending, loads,
                              loadGot, stored>>]_vars
    /\ (isLoadingRef /\ error = UsernameRequired)
          ~> (~isLoadingRef /\ ~isLoading /\ loads = {})

C28_Witness ==
    /\ error = UsernameRequired
    /\ ~isLoadingRef
    /\ finished = 1
    /\ LoadComplete
    /\ username = "a"

\* C29: fetchUserProfile called on its own that gets an absent result
\* puts "User <username> not found" in the error slot, returns null, ends
\* with the profile flag false and leaves every entity slot, the profile
\* slot included, as it was.
C29_AbsentProfileKeepsHeldProfile ==
    /\ [](\A q \in pending :
            q.res = "profile"
               => LET f == fetchUserProfile(St, q, Resolve(NullValue))
                  IN  /\ f.st.error = UserNotFound(q.user)
                      /\ f.ret = NullValue
                      /\ ~f.st.loadingStates["profile"]
                      /\ f.st.entities = entities)
    /\ [][\A q \in pending \ pending' :
             (q.res = "profile" /\ q.by = "standalone" /\ q.user = "c")
                => /\ error' = UserNotFound("c")
                   /\ entities' = entities
                   /\ ~loadingStates'["profile"]]_vars

C29_Witness ==
    /\ entities["profile"] = Payload("a", "profile")
    /\ username = "a"
    /\ error = UserNotFound("c")
    /\ InFlight("profile") = {}
    /\ ~loadingStates["profile"]

\* the calendar day a key stands for
DateOfKey(key) ==
    CHOOSE date \in {setDateBack(today, i) :
                        today \in Todays, i \in 0..(MaxDaysAgo - 1)} :
        formatDate(date) = key

\* d is a day before e
Before(d, e) ==
    \/ d.year < e.year
    \/ d.year = e.year /\ d.month < e.month
    \/ d.year = e.year /\ d.month = e.month /\ d.day < e.day

\* how many of the dates keys of c, counted back from the latest one,
\* have a positive count before one has not
RECURSIVE RunEndingAtLatest(_, _)
RunEndingAtLatest(c, keys) ==
    IF keys = {} THEN 0
    ELSE LET latest == CHOOSE k \in keys :
                          \A j \in keys \ {k} :
                              Before(DateOfKey(j), DateOfKey(k))
         IN  IF c[latest] > 0
             THEN 1 + RunEndingAtLatest(c, keys \ {latest})
             ELSE 0

PositiveDates(c) == {k \in DOMAIN c : c[k] > 0}

\* C30: for every contributions object, calculateLongestStreak is at
\* least calculateCurrentStreak, which is at least 0; calculateLongestStreak
\* is at most the number of dates with a positive count; and
\* calculateCurrentStreak is the length of the run of positive counts that
\* ends at the latest date.
C30_StreaksAreOrderedAndBounded ==
    /\ \A r \in Returned("calculateCurrentStreak") :
           /\ r.ret >= 0
           /\ r.ret = RunEndingAtLatest(contributions, DOMAIN contributions)
    /\ \A r \in Returned("calculateLongestStreak") :
           /\ r.ret <= Cardinality(PositiveDates(contributions))
           /\ \A q \in Returned("calculateCurrentStreak") : r.ret >= q.ret

C30_Witness ==
    /\ DOMAIN contributions = DateKeys
    /\ \E k \in DateKeys : contributions[k] = 0
    /\ \E q \in Returned("calculateCurrentStreak") : q.ret = 1
    /\ \E r \in Returned("calculateLongestStreak") : r.ret = 2

====
